---- MODULE Spec2Model ----
(***************************************************************************)
(* Model of the caption layout and video assembly code of                  *)
(* src/video/video_maker.py (with the styling constants of src/settings.py)*)
(*                                                                         *)
(* Strings are sequences of one-character strings, so that the Python      *)
(* string operations the code uses (split, strip, join, len) are computed  *)
(* and not assumed.  Python floats are IEEE-754 binary64 values, modelled  *)
(* by their 53-bit mantissa and exponent so that int(base * (60 / L))      *)
(* rounds as it does in the program.                                       *)
(*                                                                         *)
(* Three specifications share the variables:                               *)
(*   SpecWrap  applies _wrap_text to a bounded text, font and max width    *)
(*   SpecFont  applies _calculate_font_size to a bounded text and base     *)
(*   Spec      runs build_video step by step on bounded inputs             *)
(***************************************************************************)
EXTENDS Integers, Sequences, FiniteSets, TLC

(***************************************************************************)
(* Bounds of the model.                                                    *)
(***************************************************************************)
MaxTextLen == 5        \* characters in a text handed to _wrap_text
MaxGlyphWidth == 2     \* pixel width of one glyph
MaxWidthPx == 5        \* max_width handed to _wrap_text
MaxLineLen == 105      \* characters in a line handed to _calculate_font_size
MaxBase == 110         \* base font size (settings.CAPTION_FONT_SIZE)
MaxStanzas == 2        \* stanzas handed to build_video
MaxDuration == 2       \* duration of one audio track
MaxCaptionLines == 3   \* paragraphs of a caption text
MaxRequests == 2       \* POST /api/generate requests the web app receives
MaxRetries == 3        \* max_retries handed to a retry loop
MaxBackoff == 3        \* backoff_seconds handed to a retry loop, in half seconds

(***************************************************************************)
(* Program constants.                                                      *)
(***************************************************************************)
VIDEO_WIDTH == 1080
VIDEO_HEIGHT == 1920
VIDEO_FPS == 30
CAPTION_FONT == "Arial"
CAPTION_FONT_SIZE == 48
CAPTION_STROKE_WIDTH == 2
CAPTION_MAX_WIDTH == 900
EdgeMargin == 100
LONG_LINE == 60
SHORT_LINE == 30
MIN_FONT_SIZE == 32
MAX_FONT_SIZE == 72
DoubleMantissa == 53

VARIABLES
    pc,             \* position of the running call
    text,           \* _wrap_text / _calculate_font_size: the text argument
    font,           \* _wrap_text: the font measure, glyph -> pixel width
    max_width,      \* _wrap_text: the max_width argument
    wrapped_lines,  \* _wrap_text: the returned list of lines
    base_size,      \* _calculate_font_size: settings.CAPTION_FONT_SIZE
    font_size,      \* _calculate_font_size: the returned size
    stanzas,        \* build_video: the stanzas argument
    audio_paths,    \* build_video: the audio_paths argument
    backgrounds,    \* build_video: the backgrounds argument
    missing,        \* paths that do not exist on disk
    audio_duration, \* duration of the audio file behind each audio path
    video_clips,    \* build_video: the clips built so far
    final_video,    \* build_video: the concatenated timeline
    encoded,        \* the timelines handed to write_videofile, in call order
    opened,         \* every audio / image source opened during the call
    open_handles,   \* the sources opened and not yet closed
    dir_created,    \* whether output_file.parent.mkdir has run
    file_written,   \* state of the output file: "none", "partial", "complete"
    err,            \* the exception the running call raised, or NoError
    result,         \* the value build_video returned, or NoResult
    caption_position, \* settings.CAPTION_POSITION, as characters
    stroke_width,   \* settings.CAPTION_STROKE_WIDTH
    glyph_height,   \* the font measure, glyph -> pixel height
    loaded_font,    \* _create_text_clip: the font loaded, or NoFont
    font_tried,     \* _create_text_clip: system font paths tried so far
    line_widths,    \* _create_text_clip: measured width of each line
    line_heights,   \* _create_text_clip: measured height of each line
    start_y,        \* _create_text_clip: y of the first line
    current_y,      \* _create_text_clip: the vertical cursor
    draws,          \* draw.text calls on the canvas, per line, in call order
    text_clip,      \* _create_text_clip: the clip returned, or NoClip
    generation_status, \* webapp: the global generation_status dict
    req_pc,         \* webapp: position of each POST /api/generate handler
    response,       \* webapp: the response each request got, or NoResponse
    gen_pc,         \* webapp: position of each run_generation thread
    gen_error,      \* webapp: the exception each run_generation caught
    gen_timestamp,  \* webapp: the timestamp of each run, or None
    retry_fn,       \* retry loop: the function called
    max_retries,    \* retry loop: the max_retries argument
    backoff_seconds, \* retry loop: the backoff_seconds argument
    attempt,        \* retry loop: the loop variable
    calls,          \* retry loop: outcome of each API call made, in order
    sleeps,         \* retry loop: [after, seconds] of each time.sleep, in order
    last_error,     \* retry loop: last_error
    returned        \* retry loop: the value returned, or None

text_vars == <<text, font, max_width, wrapped_lines, base_size, font_size>>
input_vars == <<stanzas, audio_paths, backgrounds, missing, audio_duration>>
build_vars == <<video_clips, final_video, encoded, opened, open_handles,
                dir_created, file_written, err, result>>
caption_vars == <<caption_position, stroke_width, glyph_height, loaded_font,
                  font_tried, line_widths, line_heights, start_y, current_y,
                  draws, text_clip>>
web_vars == <<generation_status, req_pc, response, gen_pc, gen_error,
              gen_timestamp>>
retry_vars == <<retry_fn, max_retries, backoff_seconds, attempt, calls, sleeps,
                last_error, returned>>
service_vars == <<web_vars, retry_vars>>
vars == <<pc, text_vars, input_vars, build_vars, caption_vars, service_vars>>

Max2(a, b) == IF a >= b THEN a ELSE b
Min2(a, b) == IF a <= b THEN a ELSE b

(***************************************************************************)
(* Python string operations.                                               *)
(***************************************************************************)
Chars == {"a", "b", " ", "\n"}
Whitespace == {" ", "\n"}

\* str.split(sep) for a one-character separator: always at least one part
RECURSIVE split(_, _)
split(s, sep) ==
    IF \A i \in 1..Len(s) : s[i] # sep THEN <<s>>
    ELSE LET i == CHOOSE j \in 1..Len(s) :
                      s[j] = sep /\ \A k \in 1..(j-1) : s[k] # sep
         IN <<SubSeq(s, 1, i-1)>> \o split(SubSeq(s, i+1, Len(s)), sep)

RECURSIVE lstrip(_)
lstrip(s) == IF s # <<>> /\ s[1] \in Whitespace THEN lstrip(Tail(s)) ELSE s

RECURSIVE rstrip(_)
rstrip(s) ==
    IF s # <<>> /\ s[Len(s)] \in Whitespace
    THEN rstrip(SubSeq(s, 1, Len(s)-1)) ELSE s

\* str.strip()
strip(s) == rstrip(lstrip(s))

\* str.split() with no argument: the maximal runs of non-whitespace
RECURSIVE split_ws(_)
split_ws(s) ==
    LET t == lstrip(s) IN
    IF t = <<>> THEN <<>>
    ELSE LET n == IF \E j \in 1..Len(t) : t[j] \in Whitespace
                  THEN (CHOOSE j \in 1..Len(t) :
                            /\ t[j] \in Whitespace
                            /\ \A k \in 1..(j-1) : t[k] \notin Whitespace) - 1
                  ELSE Len(t)
         IN <<SubSeq(t, 1, n)>> \o split_ws(SubSeq(t, n+1, Len(t)))

\* sep.join(parts)
RECURSIVE join(_, _)
join(sep, parts) ==
    IF parts = <<>> THEN <<>>
    ELSE IF Len(parts) = 1 THEN parts[1]
    ELSE parts[1] \o sep \o join(sep, Tail(parts))

\* n copies of the character c
Repeat(c, n) == [i \in 1..n |-> c]

(***************************************************************************)
(* Text measurement: temp_draw.textbbox((0, 0), s, font=font), of which    *)
(* the code uses the horizontal extent.  A font is its glyph advance       *)
(* widths.                                                                 *)
(***************************************************************************)
RECURSIVE textbbox_width(_, _)
textbbox_width(f, s) ==
    IF s = <<>> THEN 0 ELSE f[s[1]] + textbbox_width(f, Tail(s))

(***************************************************************************)
(* _wrap_text                                                              *)
(***************************************************************************)
\* mutant: the space between two words is not counted
RECURSIVE wrap_words_nospace(_, _, _, _, _, _)
wrap_words_nospace(words, f, mw, current_line, current_width, lines) ==
    IF words = <<>>
    THEN IF current_line # <<>>
         THEN Append(lines, join(<<" ">>, current_line)) ELSE lines
    ELSE LET word == words[1]
             word_width == textbbox_width(f, word)
         IN IF current_width + word_width <= mw
            THEN wrap_words_nospace(Tail(words), f, mw,
                     Append(current_line, word),
                     current_width + word_width, lines)
            ELSE wrap_words_nospace(Tail(words), f, mw, <<word>>, word_width,
                     IF current_line # <<>>
                     THEN Append(lines, join(<<" ">>, current_line))
                     ELSE lines)

\* mutant: on overflow the line in progress is dropped, not saved
RECURSIVE wrap_words_lose_line(_, _, _, _, _, _)
wrap_words_lose_line(words, f, mw, current_line, current_width, lines) ==
    IF words = <<>>
    THEN IF current_line # <<>>
         THEN Append(lines, join(<<" ">>, current_line)) ELSE lines
    ELSE LET word == words[1]
             word_width == textbbox_width(f, word)
                           + (IF current_line # <<>>
                              THEN textbbox_width(f, <<" ">>) ELSE 0)
         IN IF current_width + word_width <= mw
            THEN wrap_words_lose_line(Tail(words), f, mw,
                     Append(current_line, word),
                     current_width + word_width, lines)
            ELSE wrap_words_lose_line(Tail(words), f, mw, <<word>>,
                     word_width, lines)

\* the loop over the words of one paragraph, and the "remaining line" after it
RECURSIVE wrap_words(_, _, _, _, _, _)
wrap_words(words, f, mw, current_line, current_width, lines) ==
    IF words = <<>>
    THEN IF current_line # <<>>
         THEN Append(lines, join(<<" ">>, current_line)) ELSE lines
    ELSE LET word == words[1]
             word_width == textbbox_width(f, word)
                           + (IF current_line # <<>>
                              THEN textbbox_width(f, <<" ">>) ELSE 0)
         IN IF current_width + word_width <= mw
            THEN wrap_words(Tail(words), f, mw, Append(current_line, word),
                            current_width + word_width, lines)
            ELSE wrap_words(Tail(words), f, mw, <<word>>, word_width,
                            IF current_line # <<>>
                            THEN Append(lines, join(<<" ">>, current_line))
                            ELSE lines)

\* mutant: a blank paragraph adds no line
RECURSIVE wrap_paragraphs_skip_blank(_, _, _, _)
wrap_paragraphs_skip_blank(paragraphs, f, mw, lines) ==
    IF paragraphs = <<>> THEN lines
    ELSE LET paragraph == paragraphs[1] IN
         IF strip(paragraph) = <<>>
         THEN wrap_paragraphs_skip_blank(Tail(paragraphs), f, mw, lines)
         ELSE wrap_paragraphs_skip_blank(Tail(paragraphs), f, mw,
                  wrap_words(split_ws(paragraph), f, mw, <<>>, 0, lines))

\* the loop over the paragraphs
RECURSIVE wrap_paragraphs(_, _, _, _)
wrap_paragraphs(paragraphs, f, mw, lines) ==
    IF paragraphs = <<>> THEN lines
    ELSE LET paragraph == paragraphs[1] IN
         IF strip(paragraph) = <<>>
         THEN wrap_paragraphs(Tail(paragraphs), f, mw, Append(lines, <<>>))
         ELSE wrap_paragraphs(Tail(paragraphs), f, mw,
                  wrap_words(split_ws(paragraph), f, mw, <<>>, 0, lines))

\* mutant: the text is not split on line breaks first
_wrap_text_one_paragraph(t, f, mw) ==
    LET lines == wrap_paragraphs(<<t>>, f, mw, <<>>)
    IN IF lines # <<>> THEN lines ELSE <<t>>

\* mutant: empty lines are filtered out of the result
_wrap_text_drop_empty(t, f, mw) ==
    LET NonEmpty(l) == l # <<>>
    IN SelectSeq(wrap_paragraphs(split(t, "\n"), f, mw, <<>>), NonEmpty)

_wrap_text(t, f, mw) ==
    LET lines == wrap_paragraphs(split(t, "\n"), f, mw, <<>>)
    IN IF lines # <<>> THEN lines ELSE <<t>>

(***************************************************************************)
(* Python float arithmetic (IEEE-754 binary64, round to nearest, ties to   *)
(* even).  A positive float is [m, exp]: m = <<m1, m2, m3>> are the        *)
(* DoubleMantissa = 17 + 18 + 18 mantissa bits as three limbs, most        *)
(* significant first (2^16 <= m1 < 2^17), and the value is                 *)
(* (m1 * 2^36 + m2 * 2^18 + m3) * 2^(exp - 52).  The operands here are     *)
(* ints below 2^12, so every intermediate value fits a 32-bit int.         *)
(***************************************************************************)
RECURSIVE Pow2(_)
Pow2(n) == IF n <= 0 THEN 1 ELSE 2 * Pow2(n - 1)

TopLimbBits == DoubleMantissa - 36
Limb == Pow2(18)

\* the number of bits of n
RECURSIVE BitLen(_)
BitLen(n) == IF n = 0 THEN 0 ELSE 1 + BitLen(n \div 2)

\* the mantissa m plus one unit in the last place
MantissaInc(m, e) ==
    LET c3 == IF m[3] + 1 = Limb THEN 1 ELSE 0
        c2 == IF m[2] + c3 = Limb THEN 1 ELSE 0
        m1 == m[1] + c2
    IN IF m1 = Pow2(TopLimbBits)
       THEN [m |-> <<Pow2(TopLimbBits - 1), 0, 0>>, exp |-> e + 1]
       ELSE [m |-> <<m1, (m[2] + c3) % Limb, (m[3] + 1) % Limb>>, exp |-> e]

\* a / b scaled by a power of two into [1, 2): a / b * 2^e is unchanged
RECURSIVE NormExp(_, _, _)
NormExp(a, b, e) ==
    IF a >= 2 * b THEN NormExp(a, 2 * b, e + 1)
    ELSE IF a < b THEN NormExp(2 * a, b, e - 1)
    ELSE [a |-> a, b |-> b, e |-> e]

\* n / d for positive ints n, d: Python's true division, correctly rounded.
\* Long division limb by limb; the remainder left decides the rounding.
FloatDiv(n, d) ==
    LET norm == NormExp(n, d, 0)
        b == norm.b
        t1 == norm.a * Pow2(TopLimbBits - 1)
        t2 == (t1 % b) * Limb
        t3 == (t2 % b) * Limb
        m == <<t1 \div b, t2 \div b, t3 \div b>>
        r == t3 % b
        up == 2 * r > b \/ (2 * r = b /\ m[3] % 2 = 1)
    IN IF up THEN MantissaInc(m, norm.e) ELSE [m |-> m, exp |-> norm.e]

\* k * f for a positive int k: the int converts exactly, the product is
\* rounded back to DoubleMantissa bits
FloatMulInt(k, f) ==
    LET t3 == k * f.m[3]
        t2 == k * f.m[2] + t3 \div Limb
        t1 == k * f.m[1] + t2 \div Limb
        l2 == t2 % Limb
        l3 == t3 % Limb
        s == BitLen(t1) - TopLimbBits
        p == Pow2(s)
        m == << t1 \div p,
                ((t1 % p) * Limb + l2) \div p,
                ((l2 % p) * Limb + l3) \div p >>
        lost == l3 % p
        up == s > 0 /\ (2 * lost > p \/ (2 * lost = p /\ m[3] % 2 = 1))
    IN IF up THEN MantissaInc(m, f.exp + s) ELSE [m |-> m, exp |-> f.exp + s]

\* int(f): truncation, for f < 2^17
FloatToInt(f) ==
    IF f.exp < 0 THEN 0 ELSE f.m[1] \div Pow2(TopLimbBits - 1 - f.exp)

\* the literal 1.2
Float_1_2 == FloatDiv(12, 10)

(***************************************************************************)
(* _calculate_font_size                                                    *)
(***************************************************************************)
RECURSIVE MaxLen(_)
MaxLen(lines) ==
    IF Len(lines) = 1 THEN Len(lines[1])
    ELSE Max2(Len(lines[1]), MaxLen(Tail(lines)))

max_line_length(t) ==
    LET lines == split(t, "\n")
    IN IF lines # <<>> THEN MaxLen(lines) ELSE Len(t)

\* mutant: the scaled-down size is not floored at the minimum
_calculate_font_size_no_floor(t, base) ==
    LET mll == max_line_length(t) IN
    IF mll > LONG_LINE
    THEN FloatToInt(FloatMulInt(base, FloatDiv(LONG_LINE, mll)))
    ELSE IF mll < SHORT_LINE
    THEN Min2(FloatToInt(FloatMulInt(base, Float_1_2)), MAX_FONT_SIZE)
    ELSE base

\* mutant: short text is not scaled up
_calculate_font_size_no_scale_up(t, base) ==
    LET mll == max_line_length(t) IN
    IF mll > LONG_LINE
    THEN Max2(FloatToInt(FloatMulInt(base, FloatDiv(LONG_LINE, mll))),
              MIN_FONT_SIZE)
    ELSE base

\* base is settings.CAPTION_FONT_SIZE, read by the function
_calculate_font_size(t, base) ==
    LET mll == max_line_length(t) IN
    IF mll > LONG_LINE
    THEN Max2(FloatToInt(FloatMulInt(base, FloatDiv(LONG_LINE, mll))),
              MIN_FONT_SIZE)
    ELSE IF mll < SHORT_LINE
    THEN Min2(FloatToInt(FloatMulInt(base, Float_1_2)), MAX_FONT_SIZE)
    ELSE base

(***************************************************************************)
(* Values of the variables a specification does not use.                   *)
(***************************************************************************)
Glyphs == {"a", "b", " "}
NoError == [exc |-> "none", msg |-> "none"]
NoResult == "none"
NoVideo == [clips |-> <<>>, duration |-> 0]

TextIdle ==
    /\ text = <<>>
    /\ font = [g \in Glyphs |-> 1]
    /\ max_width = 0
    /\ wrapped_lines = <<>>
    /\ base_size = CAPTION_FONT_SIZE
    /\ font_size = 0

InputIdle ==
    /\ stanzas = <<>>
    /\ audio_paths = <<>>
    /\ backgrounds = <<>>
    /\ missing = {}
    /\ audio_duration = <<>>

BuildIdle ==
    /\ video_clips = <<>>
    /\ final_video = NoVideo
    /\ encoded = <<>>
    /\ opened = {}
    /\ open_handles = {}
    /\ dir_created = FALSE
    /\ file_written = "none"
    /\ err = NoError
    /\ result = NoResult

NoFont == "none"
NoClip == [source |-> "none"]

CaptionIdle ==
    /\ caption_position = <<>>
    /\ stroke_width = CAPTION_STROKE_WIDTH
    /\ glyph_height = [g \in Glyphs |-> 0]
    /\ loaded_font = NoFont
    /\ font_tried = 0
    /\ line_widths = <<>>
    /\ line_heights = <<>>
    /\ start_y = 0
    /\ current_y = 0
    /\ draws = <<>>
    /\ text_clip = NoClip

\* Python's None, and an optional value that is set
None == <<>>
Some(x) == <<x>>

\* the module-level generation_status of the web app
InitialStatus ==
    [is_generating |-> FALSE, progress |-> <<"">>, error |-> None,
     last_video |-> None]

WebIdle ==
    /\ generation_status = InitialStatus
    /\ req_pc = <<>>
    /\ response = <<>>
    /\ gen_pc = <<>>
    /\ gen_error = <<>>
    /\ gen_timestamp = <<>>

RetryIdle ==
    /\ retry_fn = "none"
    /\ max_retries = 0
    /\ backoff_seconds = 0
    /\ attempt = 0
    /\ calls = <<>>
    /\ sleeps = <<>>
    /\ last_error = None
    /\ returned = None

ServiceIdle == WebIdle /\ RetryIdle

(***************************************************************************)
(* SpecWrap: one call of _wrap_text(text, font, max_width).                *)
(***************************************************************************)
Texts == UNION {[1..n -> Chars] : n \in 0..MaxTextLen}

WrapInit ==
    /\ pc = "wrap_call"
    /\ text \in Texts
    /\ font \in [Glyphs -> 1..MaxGlyphWidth]
    /\ max_width \in 0..MaxWidthPx
    /\ wrapped_lines = <<>>
    /\ base_size = CAPTION_FONT_SIZE
    /\ font_size = 0
    /\ InputIdle
    /\ BuildIdle
    /\ CaptionIdle
    /\ ServiceIdle

WrapText ==
    /\ pc = "wrap_call"
    /\ wrapped_lines' = _wrap_text(text, font, max_width)
    /\ pc' = "wrap_done"
    /\ UNCHANGED <<text, font, max_width, base_size, font_size,
                   input_vars, build_vars, caption_vars>>
    /\ UNCHANGED service_vars

WrapNext == WrapText

SpecWrap == WrapInit /\ [][WrapNext]_vars

(***************************************************************************)
(* SpecFont: one call of _calculate_font_size(text) with                   *)
(* settings.CAPTION_FONT_SIZE = base_size.                                 *)
(***************************************************************************)
OtherLineLens == {0, 29, 45, 61}

FontTexts ==
    {Repeat("a", n) : n \in 0..MaxLineLen}
    \cup {Repeat("a", n) \o <<"\n">> \o Repeat("a", m) :
              n \in 0..MaxLineLen, m \in OtherLineLens}
    \cup {Repeat("a", m) \o <<"\n">> \o Repeat("a", n) :
              n \in 0..MaxLineLen, m \in OtherLineLens}

FontInit ==
    /\ pc = "font_call"
    /\ text \in FontTexts
    /\ base_size \in 1..MaxBase
    /\ font_size = 0
    /\ font = [g \in Glyphs |-> 1]
    /\ max_width = 0
    /\ wrapped_lines = <<>>
    /\ InputIdle
    /\ BuildIdle
    /\ CaptionIdle
    /\ ServiceIdle

CalculateFontSize ==
    /\ pc = "font_call"
    /\ font_size' = _calculate_font_size(text, base_size)
    /\ pc' = "font_done"
    /\ UNCHANGED <<text, font, max_width, wrapped_lines, base_size,
                   input_vars, build_vars, caption_vars>>
    /\ UNCHANGED service_vars

FontNext == CalculateFontSize

SpecFont == FontInit /\ [][FontNext]_vars

(***************************************************************************)
(* Spec: one call of build_video(backgrounds, stanzas, audio_paths,        *)
(* output_path), step by step.  The stanzas and paths are told apart by    *)
(* their position: the k-th stanza is <<"stanza", k>>, and so on.  The     *)
(* calls into moviepy (AudioFileClip, ImageClip, concatenate_videoclips,   *)
(* write_videofile) and the caption rendering may raise; mkdir may raise.  *)
(***************************************************************************)
OutputPath == "output/final.mp4"

Ids(kind, n) == [k \in 1..n |-> <<kind, k>>]
Range(s) == {s[k] : k \in 1..Len(s)}

ValueError(msg) == [exc |-> "ValueError", msg |-> msg]
\* raise RuntimeError(f"Video generation failed: {e}") from e
RuntimeError(cause) == [exc |-> "RuntimeError", msg |-> cause]
OSError(msg) == [exc |-> "OSError", msg |-> msg]

\* mutant: the number of backgrounds is not checked
validate_inputs_no_background_check(bg, st, au) ==
    IF Len(st) # Len(au) THEN ValueError("Mismatch")
    ELSE NoError

\* "Validate inputs": the error raised, or NoError
validate_inputs(bg, st, au) ==
    IF Len(st) # Len(au) THEN ValueError("Mismatch")
    ELSE IF Len(bg) < Len(st) THEN ValueError("Not enough backgrounds")
    ELSE NoError

\* mutant: only the audio files are checked
check_files_audio_only(bg, st, au, gone) ==
    IF \E k \in 1..Len(au) : au[k] \in gone
    THEN ValueError("Audio file not found")
    ELSE NoError

\* "Validate all files exist": the error raised, or NoError
check_files(bg, st, au, gone) ==
    IF \E k \in 1..Len(au) : au[k] \in gone
    THEN ValueError("Audio file not found")
    ELSE IF \E k \in 1..Min2(Len(bg), Len(st)) : bg[k] \in gone
    THEN ValueError("Background image not found")
    ELSE NoError

\* mutant: the last backgrounds are paired with the stanzas, not the first
zip_misaligned(st, au, bg) ==
    LET n == Min2(Len(st), Min2(Len(au), Len(bg)))
    IN [k \in 1..n |-> <<st[k], au[k], bg[Len(bg) - n + k]>>]

\* zip(stanzas, audio_paths, backgrounds)
zip(st, au, bg) ==
    [k \in 1..Min2(Len(st), Min2(Len(au), Len(bg))) |-> <<st[k], au[k], bg[k]>>]

\* moviepy clips: a still image has no size of the video's, no duration and
\* no frame rate until they are set
ImageClip(source) == [source |-> source]
SetAttr(clip, attr, value) ==
    [a \in DOMAIN clip \cup {attr} |-> IF a = attr THEN value ELSE clip[a]]
resize(clip, size) == SetAttr(clip, "size", size)
set_duration(clip, duration) == SetAttr(clip, "duration", duration)
set_fps(clip, fps) == SetAttr(clip, "fps", fps)

\* mutant: the caption overlay is given no frame rate
_create_text_clip_no_fps(t, duration) ==
    set_duration(resize(ImageClip(<<"caption", t>>),
                        <<VIDEO_WIDTH, VIDEO_HEIGHT>>), duration)

\* the clip _create_text_clip returns: the caption raster, drawn on a canvas
\* of the video's size, as a clip of the given duration
_create_text_clip(t, duration) ==
    set_fps(set_duration(resize(ImageClip(<<"caption", t>>),
                                <<VIDEO_WIDTH, VIDEO_HEIGHT>>), duration),
            VIDEO_FPS)

\* the duration of CompositeVideoClip(layers): that of its longest layer
CompositeVideoClip(layers) ==
    CHOOSE d \in {layers[i].duration : i \in 1..Len(layers)} :
        \A i \in 1..Len(layers) : layers[i].duration <= d

\* the clip _create_stanza_clip returns: the background and the caption
\* over it, both lasting as long as the audio, with the audio as its track
_create_stanza_clip(stanza, audio_path, background_path, durations) ==
    LET duration == durations[audio_path]
        bg_clip == set_fps(set_duration(resize(ImageClip(background_path),
                                               <<VIDEO_WIDTH, VIDEO_HEIGHT>>),
                                        duration), VIDEO_FPS)
        overlay == _create_text_clip(stanza, duration)
    IN [stanza |-> stanza, audio |-> audio_path, background |-> background_path,
        bg_clip |-> bg_clip, text_clip |-> overlay,
        duration |-> CompositeVideoClip(<<bg_clip, overlay>>)]

RECURSIVE SumDurations(_)
SumDurations(clips) ==
    IF clips = <<>> THEN 0 ELSE clips[1].duration + SumDurations(Tail(clips))

\* concatenate_videoclips(video_clips, method="compose")
concatenate_videoclips(clips) ==
    [clips |-> clips, duration |-> SumDurations(clips)]

Init ==
    /\ pc = "start"
    /\ \E ns \in 0..MaxStanzas, na \in 0..MaxStanzas, nb \in 0..(MaxStanzas + 1) :
          /\ stanzas = Ids("stanza", ns)
          /\ audio_paths = Ids("audio", na)
          /\ backgrounds = Ids("background", nb)
    /\ missing \in SUBSET (Range(audio_paths) \cup Range(backgrounds))
    /\ audio_duration \in [Range(audio_paths) -> 1..MaxDuration]
    /\ TextIdle
    /\ BuildIdle
    /\ CaptionIdle
    /\ ServiceIdle

Raise(e) ==
    /\ err' = e
    /\ pc' = "raised"

\* lines 37-42
Validate ==
    /\ pc = "start"
    /\ LET e == validate_inputs(backgrounds, stanzas, audio_paths) IN
       IF e # NoError THEN Raise(e)
       ELSE pc' = "mkdir" /\ UNCHANGED err
    /\ UNCHANGED caption_vars
    /\ UNCHANGED <<text_vars, input_vars, video_clips, final_video, encoded,
                   opened, open_handles, dir_created, file_written, result>>
    /\ UNCHANGED service_vars

\* lines 44-46; an OSError is raised outside the try block
Mkdir ==
    /\ pc = "mkdir"
    /\ \/ dir_created' = TRUE /\ pc' = "check_files" /\ UNCHANGED err
       \/ Raise(OSError("mkdir")) /\ UNCHANGED dir_created
    /\ UNCHANGED caption_vars
    /\ UNCHANGED <<text_vars, input_vars, video_clips, final_video, encoded,
                   opened, open_handles, file_written, result>>
    /\ UNCHANGED service_vars

\* lines 48-55
CheckFiles ==
    /\ pc = "check_files"
    /\ LET e == check_files(backgrounds, stanzas, audio_paths, missing) IN
       IF e # NoError THEN Raise(e)
       ELSE pc' = "try" /\ UNCHANGED err
    /\ UNCHANGED caption_vars
    /\ UNCHANGED <<text_vars, input_vars, video_clips, final_video, encoded,
                   opened, open_handles, dir_created, file_written, result>>
    /\ UNCHANGED service_vars

\* lines 62-65, one iteration of the loop, with _create_stanza_clip (lines
\* 113-132): the audio is opened, then the image, then the caption is drawn
CreateStanzaClip ==
    /\ pc = "try"
    /\ Len(video_clips) < Len(zip(stanzas, audio_paths, backgrounds))
    /\ LET i == Len(video_clips) + 1
           item == zip(stanzas, audio_paths, backgrounds)[i]
           audio == <<"audio handle", i>>
           image == <<"image buffer", i>>
       IN \/ /\ Raise(RuntimeError("AudioFileClip"))
             /\ UNCHANGED <<opened, open_handles, video_clips>>
          \/ /\ opened' = opened \cup {audio}
             /\ open_handles' = open_handles \cup {audio}
             /\ Raise(RuntimeError("ImageClip"))
             /\ UNCHANGED video_clips
          \/ /\ opened' = opened \cup {audio, image}
             /\ open_handles' = open_handles \cup {audio, image}
             /\ Raise(RuntimeError("_create_text_clip"))
             /\ UNCHANGED video_clips
          \/ /\ opened' = opened \cup {audio, image}
             /\ open_handles' = open_handles \cup {audio, image}
             /\ video_clips' = Append(video_clips,
                    _create_stanza_clip(item[1], item[2], item[3], audio_duration))
             /\ UNCHANGED <<pc, err>>
    /\ UNCHANGED caption_vars
    /\ UNCHANGED <<text_vars, input_vars, final_video, encoded, dir_created,
                   file_written, result>>
    /\ UNCHANGED service_vars

\* lines 67-69, after the loop; moviepy raises on an empty list of clips
Concatenate ==
    /\ pc = "try"
    /\ Len(video_clips) = Len(zip(stanzas, audio_paths, backgrounds))
    /\ \/ /\ video_clips # <<>>
          /\ final_video' = concatenate_videoclips(video_clips)
          /\ pc' = "write"
          /\ UNCHANGED err
       \/ /\ Raise(RuntimeError("concatenate_videoclips"))
          /\ UNCHANGED final_video
    /\ UNCHANGED caption_vars
    /\ UNCHANGED <<text_vars, input_vars, video_clips, encoded, opened,
                   open_handles, dir_created, file_written, result>>
    /\ UNCHANGED service_vars

\* mutant: a failure of the encoder is swallowed
WriteVideofile_swallow ==
    /\ pc = "write"
    /\ encoded' = Append(encoded, final_video)
    /\ file_written' \in {"none", "partial", "complete"}
    /\ pc' = "cleanup"
    /\ UNCHANGED caption_vars
    /\ UNCHANGED <<text_vars, input_vars, video_clips, final_video, opened,
                   open_handles, dir_created, result, err>>
    /\ UNCHANGED service_vars

\* lines 71-80
WriteVideofile ==
    /\ pc = "write"
    /\ encoded' = Append(encoded, final_video)
    /\ \/ /\ file_written' = "complete"
          /\ pc' = "cleanup"
          /\ UNCHANGED err
       \/ /\ file_written' \in {"none", "partial"}
          /\ Raise(RuntimeError("write_videofile"))
    /\ UNCHANGED caption_vars
    /\ UNCHANGED <<text_vars, input_vars, video_clips, final_video, opened,
                   open_handles, dir_created, result>>
    /\ UNCHANGED service_vars

\* lines 82-88: every clip is closed, then the path is returned
CleanUpAndReturn ==
    /\ pc = "cleanup"
    /\ open_handles' = open_handles \
           UNION {{<<"audio handle", k>>, <<"image buffer", k>>} :
                      k \in 1..Len(video_clips)}
    /\ result' = OutputPath
    /\ pc' = "returned"
    /\ UNCHANGED caption_vars
    /\ UNCHANGED <<text_vars, input_vars, video_clips, final_video, encoded,
                   opened, dir_created, file_written, err>>
    /\ UNCHANGED service_vars

Next ==
    \/ Validate
    \/ Mkdir
    \/ CheckFiles
    \/ CreateStanzaClip
    \/ Concatenate
    \/ WriteVideofile
    \/ CleanUpAndReturn

Spec == Init /\ [][Next]_vars

(***************************************************************************)
(* Properties of _wrap_text.                                               *)
(***************************************************************************)
RECURSIVE SumWidths(_)
SumWidths(ws) ==
    IF ws = <<>> THEN 0 ELSE textbbox_width(font, ws[1]) + SumWidths(Tail(ws))

\* pixel width of a line: its word widths plus one space width per gap
PixelWidth(line) ==
    LET ws == split_ws(line)
    IN IF ws = <<>> THEN 0
       ELSE SumWidths(ws) + (Len(ws) - 1) * textbbox_width(font, <<" ">>)

\* the words of a list of lines, in order
RECURSIVE WordsOf(_)
WordsOf(lines) ==
    IF lines = <<>> THEN <<>>
    ELSE split_ws(lines[1]) \o WordsOf(Tail(lines))

IsOversize(w) == textbbox_width(font, w) > max_width

\* C1: every line returned by _wrap_text is at most max_width pixels wide,
\* except a line that is exactly one word wider than max_width; and every
\* such oversize word of the text is returned, alone on its line, in order.
C1_WrapWithinBudget ==
    pc = "wrap_done" =>
        /\ \A i \in 1..Len(wrapped_lines) :
              LET ws == split_ws(wrapped_lines[i]) IN
              \/ PixelWidth(wrapped_lines[i]) <= max_width
              \/ /\ Len(ws) = 1
                 /\ wrapped_lines[i] = ws[1]
                 /\ IsOversize(ws[1])
        /\ SelectSeq(WordsOf(wrapped_lines), IsOversize)
               = SelectSeq(split_ws(text), IsOversize)

\* an oversize word alone on its line, next to a line within the budget
C1_Witness ==
    /\ pc = "wrap_done"
    /\ \E i, j \in 1..Len(wrapped_lines) :
          /\ split_ws(wrapped_lines[i]) = <<wrapped_lines[i]>>
          /\ IsOversize(wrapped_lines[i])
          /\ j = i + 1
          /\ wrapped_lines[j] # <<>>
          /\ PixelWidth(wrapped_lines[j]) <= max_width
          /\ PixelWidth(wrapped_lines[j]) + textbbox_width(font, <<" ">>) > max_width

\* the lines can be cut into consecutive groups, one per paragraph and in
\* the paragraphs' order, the words of each group being its paragraph's
RECURSIVE LinesFollowParagraphs(_, _)
LinesFollowParagraphs(paragraphs, lines) ==
    IF paragraphs = <<>> THEN lines = <<>>
    ELSE \E k \in 0..Len(lines) :
            /\ WordsOf(SubSeq(lines, 1, k)) = split_ws(paragraphs[1])
            /\ LinesFollowParagraphs(Tail(paragraphs),
                                     SubSeq(lines, k + 1, Len(lines)))

\* C10: line breaks are hard boundaries: no returned line holds words of
\* two paragraphs, and the lines of an earlier paragraph precede those of a
\* later one, whatever max_width is.
C10_LineBreaksAreHard ==
    pc = "wrap_done" =>
        LinesFollowParagraphs(split(text, "\n"), wrapped_lines)

\* two paragraphs that would fit one line together are kept apart
C10_Witness ==
    /\ pc = "wrap_done"
    /\ Len(split(text, "\n")) = 2
    /\ \A i \in 1..2 : split_ws(split(text, "\n")[i]) # <<>>
    /\ PixelWidth(text) <= max_width
    /\ Len(wrapped_lines) = 2

IsBlank(s) == strip(s) = <<>>

\* which entries are blank, a run of non-blank entries counted once
RECURSIVE Skeleton(_)
Skeleton(ls) ==
    IF ls = <<>> THEN <<>>
    ELSE IF IsBlank(ls[1]) THEN <<"blank">> \o Skeleton(Tail(ls))
    ELSE IF Len(ls) > 1 /\ ~IsBlank(ls[2]) THEN Skeleton(Tail(ls))
    ELSE <<"text">> \o Skeleton(Tail(ls))

\* C11: every empty or whitespace-only paragraph of the text yields exactly
\* one empty line, at the paragraph's position among the lines of the other
\* paragraphs; no other returned line is empty or blank, so the empty lines
\* are as many as the blank paragraphs.
C11_BlankParagraphsKept ==
    pc = "wrap_done" =>
        LET paragraphs == split(text, "\n") IN
        /\ \A i \in 1..Len(wrapped_lines) :
              IsBlank(wrapped_lines[i]) => wrapped_lines[i] = <<>>
        /\ Skeleton(wrapped_lines) = Skeleton(paragraphs)
        /\ Len(SelectSeq(wrapped_lines, IsBlank))
               = Len(SelectSeq(paragraphs, IsBlank))

\* "a\n\nb" comes back as "a", "", "b"
C11_Witness ==
    /\ pc = "wrap_done"
    /\ text = <<"a", "\n", "\n", "b">>
    /\ wrapped_lines = << <<"a">>, <<>>, <<"b">> >>

\* C19: _wrap_text returns at least one line for every text, and if the
\* loop over the paragraphs leaves no line, the result is the list holding
\* the text itself.
C19_AtLeastOneLine ==
    pc = "wrap_done" =>
        /\ Len(wrapped_lines) >= 1
        /\ wrap_paragraphs(split(text, "\n"), font, max_width, <<>>) = <<>>
               => wrapped_lines = <<text>>

\* texts without a word still come back as lines: "" as one empty line,
\* "\n" as two
C19_Witness ==
    /\ pc = "wrap_done"
    /\ \/ text = <<>> /\ wrapped_lines = << <<>> >>
       \/ text = <<"\n">> /\ wrapped_lines = << <<>>, <<>> >>

\* every break between two lines was forced: the next line's first word,
\* after a space, would not have fitted the line that ends
GreedyBreaks(lines) ==
    \A i \in 1..(Len(lines) - 1) :
        PixelWidth(lines[i]) + textbbox_width(font, <<" ">>)
            + textbbox_width(font, split_ws(lines[i+1])[1]) > max_width

\* the lines are the paragraphs' lines in order, one empty line for a blank
\* paragraph, and every break inside a paragraph was forced
RECURSIVE GreedyParagraphs(_, _)
GreedyParagraphs(paragraphs, lines) ==
    IF paragraphs = <<>> THEN lines = <<>>
    ELSE IF IsBlank(paragraphs[1])
    THEN /\ lines # <<>>
         /\ lines[1] = <<>>
         /\ GreedyParagraphs(Tail(paragraphs), Tail(lines))
    ELSE \E k \in 1..Len(lines) :
            /\ \A i \in 1..k : lines[i] # <<>>
            /\ WordsOf(SubSeq(lines, 1, k)) = split_ws(paragraphs[1])
            /\ GreedyBreaks(SubSeq(lines, 1, k))
            /\ GreedyParagraphs(Tail(paragraphs),
                                SubSeq(lines, k + 1, Len(lines)))

\* C20: wrapping is greedy: wherever _wrap_text ends a line between two
\* consecutive words of a paragraph, the width of the line that ends plus
\* one space plus the next word's width is more than max_width.
C20_Claim ==
    pc = "wrap_done" => GreedyParagraphs(split(text, "\n"), wrapped_lines)

\* C21: _wrap_text conserves words: the whitespace-separated words read off
\* the returned lines, in order, are the whitespace-separated words of the
\* text; none is lost, duplicated, split or reordered.
C21_WordsConserved ==
    pc = "wrap_done" => WordsOf(wrapped_lines) = split_ws(text)

\* three words over two paragraphs, wrapped onto three lines
C21_Witness ==
    /\ pc = "wrap_done"
    /\ text = <<"a", " ", "b", "\n", "a">>
    /\ wrapped_lines = << <<"a">>, <<"b">>, <<"a">> >>

(***************************************************************************)
(* Properties of _calculate_font_size.                                     *)
(***************************************************************************)
\* C7 as stated: the size is within [32, 72] for every base size and text.
C7_Original ==
    pc = "font_done" => font_size \in MIN_FONT_SIZE..MAX_FONT_SIZE

\* C7 (amended): for every base size within [32, 72] and every text, the
\* size returned is within [32, 72].
C7_SizeWithinRange ==
    (pc = "font_done" /\ base_size \in MIN_FONT_SIZE..MAX_FONT_SIZE)
        => font_size \in MIN_FONT_SIZE..MAX_FONT_SIZE

\* a long line scaled down to the minimum from a base within the range
C7_Witness ==
    /\ pc = "font_done"
    /\ base_size \in MIN_FONT_SIZE..MAX_FONT_SIZE
    /\ max_line_length(text) > LONG_LINE
    /\ font_size = MIN_FONT_SIZE
    /\ (base_size * LONG_LINE) \div max_line_length(text) < MIN_FONT_SIZE

TextsOfLength20 == {t \in FontTexts : max_line_length(t) = 20}

\* C8 as stated: for every base size, a 90-character longest line gets a
\* strictly smaller size than a 20-character longest line.
C8_Original ==
    (pc = "font_done" /\ max_line_length(text) = 90)
        => \A t \in TextsOfLength20 :
              font_size < _calculate_font_size(t, base_size)

\* C8 (amended): for every base size from 28 to 107, a 90-character longest
\* line gets a strictly smaller size than a 20-character longest line.
C8_LongSmallerThanShort ==
    (pc = "font_done" /\ max_line_length(text) = 90
        /\ base_size \in 28..107)
        => \A t \in TextsOfLength20 :
              font_size < _calculate_font_size(t, base_size)

\* the configured base size, a 90-character longest line in a two-line text
C8_Witness ==
    /\ pc = "font_done"
    /\ base_size = CAPTION_FONT_SIZE
    /\ max_line_length(text) = 90
    /\ Len(text) > 90
    /\ font_size = 32
    /\ \A t \in TextsOfLength20 : _calculate_font_size(t, base_size) = 57

\* C9: with L the longest line's length, the size is
\* max(floor(base * 60 / L), 32) when L > 60, min(floor(base * 1.2), 72)
\* when L < 30, and base when 30 <= L <= 60.
C9_Claim ==
    pc = "font_done" =>
        LET L == max_line_length(text) IN
        font_size = IF L > 60 THEN Max2((base_size * 60) \div L, 32)
                    ELSE IF L < 30 THEN Min2((base_size * 12) \div 10, 72)
                    ELSE base_size

(***************************************************************************)
(* Properties of build_video.  The code raises ValueError for the error    *)
(* kinds InvalidInput and ResourceNotFound; the message tells them apart.  *)
(***************************************************************************)
IsInvalidInput(e) ==
    e.exc = "ValueError" /\ e.msg \in {"Mismatch", "Not enough backgrounds"}

IsResourceNotFound(e) ==
    /\ e.exc = "ValueError"
    /\ e.msg \in {"Audio file not found", "Background image not found"}

Finished == pc \in {"returned", "raised"}

NoWorkDone ==
    /\ ~dir_created
    /\ opened = {}
    /\ video_clips = <<>>
    /\ final_video = NoVideo
    /\ encoded = <<>>
    /\ file_written = "none"

CountsMismatch ==
    Len(stanzas) # Len(audio_paths) \/ Len(backgrounds) < Len(stanzas)

\* C2: when the counts do not match (stanzas and audio paths differ in
\* number, or there are fewer backgrounds than stanzas), build_video raises
\* InvalidInput and nothing has been done: no directory created, no source
\* opened, no clip built, nothing encoded or written.
C2_FailFastOnMismatch ==
    CountsMismatch =>
        /\ NoWorkDone
        /\ pc \in {"start", "raised"}
        /\ pc = "raised" => IsInvalidInput(err)
        /\ result = NoResult

\* two stanzas, one audio path, every file present: raised on the mismatch
C2_Witness ==
    /\ pc = "raised"
    /\ Len(stanzas) = 2
    /\ Len(audio_paths) = 1
    /\ Len(backgrounds) >= 2
    /\ missing = {}
    /\ err = ValueError("Mismatch")

\* what a clip was built from, and how long it lasts
Origin(clip) ==
    [stanza |-> clip.stanza, audio |-> clip.audio,
     background |-> clip.background, duration |-> clip.duration]

ExpectedClip(k) ==
    [stanza |-> stanzas[k], audio |-> audio_paths[k],
     background |-> backgrounds[k], duration |-> audio_duration[audio_paths[k]]]

RECURSIVE SumOf(_, _)
SumOf(f, n) == IF n = 0 THEN 0 ELSE f[n] + SumOf(f, n - 1)

\* C3: when build_video returns, the encoder was handed one timeline, of
\* exactly one clip per stanza in input order, the k-th built from
\* stanzas[k], audio_paths[k] and backgrounds[k], and its duration is the
\* sum of the clips' durations.
C3_OrderPreserved ==
    pc = "returned" =>
        /\ Len(encoded) = 1
        /\ Len(encoded[1].clips) = Len(stanzas)
        /\ \A k \in 1..Len(stanzas) :
              Origin(encoded[1].clips[k]) = ExpectedClip(k)
        /\ encoded[1].duration
               = SumOf([k \in 1..Len(stanzas) |-> encoded[1].clips[k].duration],
                       Len(stanzas))
        /\ result = OutputPath

\* two stanzas of different durations, and one background more than needed
C3_Witness ==
    /\ pc = "returned"
    /\ Len(stanzas) = 2
    /\ Len(backgrounds) = 3
    /\ audio_duration[audio_paths[1]] = 2
    /\ audio_duration[audio_paths[2]] = 1
    /\ encoded[1].duration = 3

\* C4: when build_video has finished, by returning or by raising, every
\* audio and image source opened during the call has been closed.
C4_Claim ==
    Finished => open_handles = {}

\* C5: with no stanzas and no audio paths build_video raises InvalidInput
\* from its input validation: no directory is created, and neither
\* concatenation nor encoding is attempted.
C5_Claim ==
    (stanzas = <<>> /\ audio_paths = <<>>) =>
        /\ ~dir_created
        /\ encoded = <<>>
        /\ Finished => (pc = "raised" /\ IsInvalidInput(err))

MissingInput ==
    \/ \E k \in 1..Len(audio_paths) : audio_paths[k] \in missing
    \/ \E k \in 1..Min2(Len(stanzas), Len(backgrounds)) : backgrounds[k] \in missing

ClipPerStanza ==
    \A n \in 1..Len(encoded) : Len(encoded[n].clips) = Len(stanzas)

\* C6 as stated: if an audio path, or the background paired with a stanza,
\* does not exist, build_video raises ResourceNotFound before any clip is
\* built, and the encoder never gets fewer clips than there are stanzas.
C6_Original ==
    /\ MissingInput =>
          /\ video_clips = <<>>
          /\ opened = {}
          /\ pc # "returned"
          /\ pc = "raised" => IsResourceNotFound(err)
    /\ ClipPerStanza

\* C6 (amended): if the counts pass validation and an audio path, or the
\* background paired with a stanza, does not exist, then build_video, once
\* it has created the output directory, raises ResourceNotFound (a
\* ValueError naming the missing file) before any source is opened or any
\* clip built; and the encoder never gets fewer clips than there are stanzas.
C6_MissingFileFailsFast ==
    /\ (MissingInput /\ ~CountsMismatch) =>
          /\ video_clips = <<>>
          /\ opened = {}
          /\ encoded = <<>>
          /\ pc \in {"start", "mkdir", "check_files", "raised"}
          /\ (pc = "raised" /\ dir_created) => IsResourceNotFound(err)
    /\ ClipPerStanza

\* two stanzas with their audio present, the second background missing
C6_Witness ==
    /\ pc = "raised"
    /\ Len(stanzas) = 2
    /\ Len(audio_paths) = 2
    /\ Len(backgrounds) >= 2
    /\ missing = {backgrounds[2]}
    /\ dir_created
    /\ err = ValueError("Background image not found")

\* C13: if the encoder fails, build_video raises an error that carries the
\* encoder's failure and returns nothing; it returns the output path only
\* after the encoder has written the whole timeline.
C13_EncodingFailureRaises ==
    /\ (encoded # <<>> /\ file_written # "complete") =>
           /\ pc = "raised"
           /\ err = RuntimeError("write_videofile")
           /\ result = NoResult
    /\ result # NoResult =>
           /\ result = OutputPath
           /\ encoded = <<final_video>>
           /\ file_written = "complete"
           /\ err = NoError
    /\ pc = "raised" => result = NoResult

\* the encoder failed after writing part of the file
C13_Witness ==
    /\ pc = "raised"
    /\ encoded = <<final_video>>
    /\ Len(final_video.clips) = MaxStanzas
    /\ file_written = "partial"
    /\ err = RuntimeError("write_videofile")

\* C14: in every stanza clip the background layer and the caption overlay
\* both last exactly as long as the stanza's audio and both have the
\* configured frame rate, and the clip's audio track is that audio.
C14_LayersFollowAudio ==
    \A k \in 1..Len(video_clips) :
        LET clip == video_clips[k]
            duration == audio_duration[audio_paths[k]]
        IN /\ clip.audio = audio_paths[k]
           /\ clip.bg_clip.source = backgrounds[k]
           /\ clip.text_clip.source = <<"caption", stanzas[k]>>
           /\ clip.bg_clip.duration = duration
           /\ clip.text_clip.duration = duration
           /\ "fps" \in DOMAIN clip.bg_clip /\ clip.bg_clip.fps = VIDEO_FPS
           /\ "fps" \in DOMAIN clip.text_clip /\ clip.text_clip.fps = VIDEO_FPS
           /\ clip.duration = duration

\* two clips built from audio of different durations
C14_Witness ==
    /\ Len(video_clips) = 2
    /\ video_clips[1].text_clip.duration = 1
    /\ video_clips[2].text_clip.duration = MaxDuration
    /\ video_clips[2].bg_clip.duration = MaxDuration
    /\ video_clips[2].audio = audio_paths[2]

(***************************************************************************)
(* SpecCaption: one call of _create_text_clip(text, duration), step by     *)
(* step: the font is resolved, the caption is wrapped, measured and        *)
(* placed, the lines are drawn one by one, the raster becomes a clip.      *)
(***************************************************************************)
font_paths ==
    << "/System/Library/Fonts/Helvetica.ttc",
       "/System/Library/Fonts/Arial.ttf",
       "/usr/share/fonts/truetype/dejavu/DejaVuSans.ttf" >>

\* ImageFont.load_default(): the font built into the imaging library
load_default == "load_default"

\* an exception of ImageFont.truetype that is not an OSError, such as the
\* ImportError of an imaging library built without FreeType
ImportError(msg) == [exc |-> "ImportError", msg |-> msg]

\* str.lower(), on the letters
UpperCase ==
    << "A", "B", "C", "D", "E", "F", "G", "H", "I", "J", "K", "L", "M",
       "N", "O", "P", "Q", "R", "S", "T", "U", "V", "W", "X", "Y", "Z" >>
LowerCase ==
    << "a", "b", "c", "d", "e", "f", "g", "h", "i", "j", "k", "l", "m",
       "n", "o", "p", "q", "r", "s", "t", "u", "v", "w", "x", "y", "z" >>
lower(s) ==
    [i \in 1..Len(s) |->
        IF \E k \in 1..Len(UpperCase) : UpperCase[k] = s[i]
        THEN LowerCase[CHOOSE k \in 1..Len(UpperCase) : UpperCase[k] = s[i]]
        ELSE s[i]]

\* the vertical extent draw.textbbox((0, 0), s, font=font) reports: that of
\* the tallest glyph, nothing for an empty string
RECURSIVE textbbox_height(_, _)
textbbox_height(gh, s) ==
    IF s = <<>> THEN 0 ELSE Max2(gh[s[1]], textbbox_height(gh, Tail(s)))

\* sum(line_heights)
RECURSIVE sum(_)
sum(xs) == IF xs = <<>> THEN 0 ELSE xs[1] + sum(Tail(xs))

total_height(heights, n_lines, fs) == sum(heights) + (n_lines - 1) * (fs \div 4)

\* mutant: the anchor is compared as configured, not in lower case
calc_start_y_case_sensitive(position, total) ==
    IF position = <<"c", "e", "n", "t", "e", "r">>
    THEN (VIDEO_HEIGHT - total) \div 2
    ELSE IF position = <<"b", "o", "t", "t", "o", "m">>
    THEN VIDEO_HEIGHT - total - EdgeMargin
    ELSE EdgeMargin

\* "Calculate starting position"
calc_start_y(position, total) ==
    LET p == lower(position) IN
    IF p = <<"c", "e", "n", "t", "e", "r">>
    THEN (VIDEO_HEIGHT - total) \div 2
    ELSE IF p = <<"b", "o", "t", "t", "o", "m">>
    THEN VIDEO_HEIGHT - total - EdgeMargin
    ELSE EdgeMargin

\* the offsets (adj, adj2) of the stroke, in the order of the two loops
stroke_offsets(sw) ==
    LET n == 2 * sw + 1
        all == [k \in 1..(n * n) |-> <<((k - 1) \div n) - sw, ((k - 1) % n) - sw>>]
        Off(o) == o[1] # 0 \/ o[2] # 0
    IN SelectSeq(all, Off)

draw_text(xy, line, fill) == [xy |-> xy, text |-> line, fill |-> fill]

\* mutant: the main text is drawn first, the stroke over it
draw_line_fill_first(line, x, y, sw) ==
    IF strip(line) = <<>> THEN <<>>
    ELSE LET offs == stroke_offsets(sw) IN
         << draw_text(<<x, y>>, line, "CAPTION_COLOR") >>
         \o [k \in 1..Len(offs) |->
                draw_text(<<x + offs[k][1], y + offs[k][2]>>, line,
                          "CAPTION_STROKE_COLOR")]

\* the draw.text calls of one iteration of the drawing loop
draw_line(line, x, y, sw) ==
    IF strip(line) = <<>> THEN <<>>
    ELSE LET offs == stroke_offsets(sw) IN
         [k \in 1..Len(offs) |->
                draw_text(<<x + offs[k][1], y + offs[k][2]>>, line,
                          "CAPTION_STROKE_COLOR")]
         \o << draw_text(<<x, y>>, line, "CAPTION_COLOR") >>

\* mutant: a blank line advances the cursor by its height only
advance_blank_unspaced(line, y, height, fs) ==
    IF strip(line) = <<>> THEN y + height ELSE y + height + (fs \div 4)

\* current_y after one iteration of the drawing loop, blank line or not
advance(line, y, height, fs) == y + height + (fs \div 4)

CaptionParagraphs == {<<>>, <<" ">>, <<"a">>, <<"a", " ", "b">>}
CaptionTexts ==
    {join(<<"\n">>, ps) :
        ps \in UNION {[1..n -> CaptionParagraphs] : n \in 1..MaxCaptionLines}}

\* values of settings.CAPTION_POSITION: the three anchors, in several cases
Anchors ==
    { <<"c", "e", "n", "t", "e", "r">>, <<"C", "e", "n", "t", "e", "r">>,
      <<"b", "o", "t", "t", "o", "m">>, <<"B", "O", "T", "T", "O", "M">>,
      <<"t", "o", "p">>, <<"T", "o", "p">> }

\* fonts as the layout sees them: glyph widths and heights; the last one is
\* taller than the canvas
FontMeasures ==
    { [width |-> [g \in Glyphs |-> 1],
       height |-> ("a" :> 1 @@ "b" :> 2 @@ " " :> 0)],
      [width |-> [g \in Glyphs |-> MaxGlyphWidth],
       height |-> ("a" :> 2 @@ "b" :> 1 @@ " " :> 0)],
      [width |-> [g \in Glyphs |-> 1],
       height |-> ("a" :> 1 @@ "b" :> VIDEO_HEIGHT + 1 @@ " " :> 0)] }

StrokeWidths == {0, 1, CAPTION_STROKE_WIDTH}

CaptionInit ==
    /\ pc = "caption_call"
    /\ text \in CaptionTexts
    /\ \E m \in FontMeasures : font = m.width /\ glyph_height = m.height
    /\ max_width = CAPTION_MAX_WIDTH
    /\ wrapped_lines = <<>>
    /\ base_size = CAPTION_FONT_SIZE
    /\ font_size = 0
    /\ caption_position \in Anchors
    /\ stroke_width \in StrokeWidths
    /\ loaded_font = NoFont
    /\ font_tried = 0
    /\ line_widths = <<>>
    /\ line_heights = <<>>
    /\ start_y = 0
    /\ current_y = 0
    /\ draws = <<>>
    /\ text_clip = NoClip
    /\ InputIdle
    /\ BuildIdle
    /\ ServiceIdle

\* lines 147-155: the text is trimmed, the font size computed, the configured
\* font loaded; only an OSError leads on to the system fonts
LoadConfiguredFont ==
    /\ pc = "caption_call"
    /\ font_size' = _calculate_font_size(strip(text), base_size)
    /\ \/ /\ loaded_font' = CAPTION_FONT
          /\ pc' = "canvas"
          /\ UNCHANGED err
       \/ /\ pc' = "font_paths"
          /\ UNCHANGED <<loaded_font, err>>
       \/ /\ Raise(ImportError("truetype"))
          /\ UNCHANGED loaded_font
    /\ UNCHANGED <<text, font, max_width, wrapped_lines, base_size, input_vars,
                   video_clips, final_video, encoded, opened, open_handles,
                   dir_created, file_written, result>>
    /\ UNCHANGED <<caption_position, stroke_width, glyph_height, font_tried,
                   line_widths, line_heights, start_y, current_y, draws,
                   text_clip>>
    /\ UNCHANGED service_vars

\* lines 164-169 and 172-173: one system font path is tried; an OSError
\* leads on to the next path, any other exception to the built-in font
LoadSystemFont ==
    /\ pc = "font_paths"
    /\ font_tried < Len(font_paths)
    /\ \/ /\ loaded_font' = font_paths[font_tried + 1]
          /\ pc' = "canvas"
          /\ UNCHANGED font_tried
       \/ /\ font_tried' = font_tried + 1
          /\ UNCHANGED <<loaded_font, pc>>
       \/ /\ loaded_font' = load_default
          /\ pc' = "canvas"
          /\ UNCHANGED font_tried
    /\ UNCHANGED <<text_vars, input_vars, build_vars>>
    /\ UNCHANGED <<caption_position, stroke_width, glyph_height,
                   line_widths, line_heights, start_y, current_y, draws,
                   text_clip>>
    /\ UNCHANGED service_vars

\* lines 170-171: no path gave a font
LoadDefaultFont ==
    /\ pc = "font_paths"
    /\ font_tried = Len(font_paths)
    /\ loaded_font' = load_default
    /\ pc' = "canvas"
    /\ UNCHANGED <<text_vars, input_vars, build_vars>>
    /\ UNCHANGED <<caption_position, stroke_width, glyph_height, font_tried,
                   line_widths, line_heights, start_y, current_y, draws,
                   text_clip>>
    /\ UNCHANGED service_vars

\* lines 176-202: the canvas is created, the text wrapped, the lines
\* measured and the first line placed
Layout ==
    /\ pc = "canvas"
    /\ LET lines == _wrap_text(strip(text), font, max_width)
           heights == [i \in 1..Len(lines) |->
                          textbbox_height(glyph_height, lines[i])]
           y == calc_start_y(caption_position,
                             total_height(heights, Len(lines), font_size))
       IN /\ wrapped_lines' = lines
          /\ line_widths' = [i \in 1..Len(lines) |-> textbbox_width(font, lines[i])]
          /\ line_heights' = heights
          /\ start_y' = y
          /\ current_y' = y
    /\ pc' = "draw"
    /\ UNCHANGED <<text, font, max_width, base_size, font_size, input_vars,
                   build_vars>>
    /\ UNCHANGED <<caption_position, stroke_width, glyph_height, loaded_font,
                   font_tried, draws, text_clip>>
    /\ UNCHANGED service_vars

\* lines 203-231: one iteration of the drawing loop
DrawLine ==
    /\ pc = "draw"
    /\ Len(draws) < Len(wrapped_lines)
    /\ LET i == Len(draws) + 1
           line == wrapped_lines[i]
           x == (VIDEO_WIDTH - line_widths[i]) \div 2
       IN /\ draws' = Append(draws, draw_line(line, x, current_y, stroke_width))
          /\ current_y' = advance(line, current_y, line_heights[i], font_size)
    /\ UNCHANGED <<pc, text_vars, input_vars, build_vars>>
    /\ UNCHANGED <<caption_position, stroke_width, glyph_height, loaded_font,
                   font_tried, line_widths, line_heights, start_y, text_clip>>
    /\ UNCHANGED service_vars

\* lines 233-241, after the loop: the raster becomes a clip of the duration
\* the caller asked for
ReturnTextClip ==
    /\ pc = "draw"
    /\ Len(draws) = Len(wrapped_lines)
    /\ \E duration \in 1..MaxDuration :
          text_clip' = _create_text_clip(text, duration)
    /\ pc' = "caption_done"
    /\ UNCHANGED <<text_vars, input_vars, build_vars>>
    /\ UNCHANGED <<caption_position, stroke_width, glyph_height, loaded_font,
                   font_tried, line_widths, line_heights, start_y, current_y,
                   draws>>
    /\ UNCHANGED service_vars

CaptionNext ==
    \/ LoadConfiguredFont
    \/ LoadSystemFont
    \/ LoadDefaultFont
    \/ Layout
    \/ DrawLine
    \/ ReturnTextClip

SpecCaption == CaptionInit /\ [][CaptionNext]_vars

(***************************************************************************)
(* Properties of _create_text_clip.                                        *)
(***************************************************************************)
FontResolved == pc \in {"canvas", "draw", "caption_done"}
LaidOut == pc \in {"draw", "caption_done"}

\* C12: font resolution never raises, however loading the configured font
\* or a system font fails: a font is always obtained, the built-in one when
\* every other fails, and the caption clip is produced.
C12_Claim ==
    /\ pc # "raised"
    /\ FontResolved => loaded_font # NoFont
    /\ (FontResolved /\ font_tried = Len(font_paths)) => loaded_font = load_default
    /\ pc = "caption_done" => text_clip # NoClip

\* C18: a stanza text that is empty or only whitespace is rejected: no
\* caption clip is built for it.
C18_Claim ==
    strip(text) = <<>> => (pc # "caption_done" /\ text_clip = NoClip)

LineSpacing == font_size \div 4
TotalHeight ==
    SumOf(line_heights, Len(line_heights))
        + (Len(wrapped_lines) - 1) * LineSpacing

\* C15: the first line's y is (VIDEO_HEIGHT - total) div 2 for the anchor
\* "center", VIDEO_HEIGHT - total - 100 for "bottom" and 100 for "top",
\* whatever the case of the anchor's letters, where total is the sum of the
\* measured line heights plus (number of lines - 1) * (font_size div 4).
C15_StartY ==
    LaidOut =>
        /\ Len(line_heights) = Len(wrapped_lines)
        /\ \A i \in 1..Len(wrapped_lines) :
              line_heights[i] = textbbox_height(glyph_height, wrapped_lines[i])
        /\ caption_position \in { <<"c", "e", "n", "t", "e", "r">>,
                                  <<"C", "e", "n", "t", "e", "r">> }
              => start_y = (VIDEO_HEIGHT - TotalHeight) \div 2
        /\ caption_position \in { <<"b", "o", "t", "t", "o", "m">>,
                                  <<"B", "O", "T", "T", "O", "M">> }
              => start_y = VIDEO_HEIGHT - TotalHeight - 100
        /\ caption_position \in { <<"t", "o", "p">>, <<"T", "o", "p">> }
              => start_y = 100

\* three lines, the middle one blank, centred under the anchor "Center"
C15_Witness ==
    /\ LaidOut
    /\ caption_position = <<"C", "e", "n", "t", "e", "r">>
    /\ Len(wrapped_lines) = 3
    /\ line_heights = <<1, 0, 2>>
    /\ font_size = 57
    /\ start_y = (VIDEO_HEIGHT - (3 + 2 * 14)) \div 2

\* where line i belongs: below the lines before it, each with its spacing
LineY(i) ==
    start_y + SumOf([j \in 1..(i - 1) |-> line_heights[j] + LineSpacing], i - 1)
LineX(i) == (VIDEO_WIDTH - textbbox_width(font, wrapped_lines[i])) \div 2

\* C16: for every non-blank line the stroke is drawn at every offset of
\* [-stroke_width, stroke_width]^2 but (0, 0), once each, which is
\* (2 * stroke_width + 1)^2 - 1 draws in the stroke colour, and after all
\* of them the line is drawn exactly once at (x, y) in the fill colour; no
\* stroke draw follows the fill draw.
C16_StrokeThenFill ==
    \A i \in 1..Len(draws) :
        ~IsBlank(wrapped_lines[i]) =>
            LET d == draws[i]
                n == (2 * stroke_width + 1) * (2 * stroke_width + 1) - 1
                x == LineX(i)
                y == LineY(i)
                R == (0 - stroke_width)..stroke_width
            IN /\ Len(d) = n + 1
               /\ \A k \in 1..n :
                     /\ d[k].fill = "CAPTION_STROKE_COLOR"
                     /\ d[k].text = wrapped_lines[i]
               /\ {d[k].xy : k \in 1..n}
                      = {<<x + dx, y + dy>> : dx \in R, dy \in R} \ {<<x, y>>}
               /\ d[n + 1] = [xy |-> <<x, y>>, text |-> wrapped_lines[i],
                              fill |-> "CAPTION_COLOR"]

\* a second line drawn with the configured stroke width: 24 stroke draws,
\* then the fill
C16_Witness ==
    /\ stroke_width = CAPTION_STROKE_WIDTH
    /\ Len(draws) >= 2
    /\ Len(draws[2]) = 25
    /\ draws[2][1].xy = <<LineX(2) - 2, LineY(2) - 2>>
    /\ draws[2][24].fill = "CAPTION_STROKE_COLOR"
    /\ draws[2][25].fill = "CAPTION_COLOR"

\* C17: a blank line causes no draw call and moves the cursor down by its
\* measured height plus font_size div 4, like any other line, so line i is
\* placed at start_y plus the heights and spacings of the lines before it.
C17_BlankLineAdvances ==
    LaidOut =>
        /\ current_y = LineY(Len(draws) + 1)
        /\ \A i \in 1..Len(draws) :
              IF IsBlank(wrapped_lines[i]) THEN draws[i] = <<>>
              ELSE /\ draws[i] # <<>>
                   /\ draws[i][Len(draws[i])].xy = <<LineX(i), LineY(i)>>

\* a blank line between two lines of text: nothing drawn for it, and the
\* third line two spacings and one line height below the first
C17_Witness ==
    /\ pc = "caption_done"
    /\ wrapped_lines = << <<"a">>, <<>>, <<"a", " ", "b">> >>
    /\ draws[2] = <<>>
    /\ draws[3][Len(draws[3])].xy[2]
           = start_y + line_heights[1] + 2 * (font_size \div 4)
    /\ current_y > draws[3][Len(draws[3])].xy[2]

(***************************************************************************)
(* SpecWeb: the web app.  Every POST /api/generate is handled by a thread  *)
(* of the server, api_generate, which may start a run_generation thread;   *)
(* all of them share generation_status.  One step is one statement that    *)
(* reads or writes generation_status, or one call of a collaborator.       *)
(***************************************************************************)
Requests == 1..MaxRequests
NoResponse == "none"
Busy == "400 Generation already in progress"
Started == "200 started"
ServerError == "500"

\* datetime.now().strftime("%Y%m%d_%H%M%S") of two runs: the same second or not
Timestamps == {"20260101_000000", "20260101_000001"}

TypeError(msg) == [exc |-> "TypeError", msg |-> msg]
\* a failure of a collaborator or of the file system
Failure(of) == [exc |-> "Exception", msg |-> of]

\* def make_stanzas(summary_text, tone=..., model=..., max_retries=...,
\*                  backoff_seconds=...)
make_stanzas_signature ==
    << [name |-> "summary_text", required |-> TRUE],
       [name |-> "tone", required |-> FALSE],
       [name |-> "model", required |-> FALSE],
       [name |-> "max_retries", required |-> FALSE],
       [name |-> "backoff_seconds", required |-> FALSE] >>

\* make_stanzas(summary, tone=tone, model=model, stanza_count=stanzas_count)
make_stanzas_call ==
    [positional |-> 1, keywords |-> {"tone", "model", "stanza_count"}]

\* Python's binding of a call's arguments to a signature without *args and
\* **kwargs: the TypeError it raises, or NoError
bind(signature, call) ==
    LET names == {signature[i].name : i \in 1..Len(signature)}
        filled == {signature[i].name :
                       i \in 1..Min2(call.positional, Len(signature))}
    IN IF call.positional > Len(signature)
       THEN TypeError("too many positional arguments")
       ELSE IF call.keywords \ names # {}
       THEN TypeError("unexpected keyword argument")
       ELSE IF call.keywords \cap filled # {}
       THEN TypeError("multiple values for argument")
       ELSE IF \E i \in 1..Len(signature) :
                  /\ signature[i].required
                  /\ signature[i].name \notin filled \cup call.keywords
       THEN TypeError("missing required argument")
       ELSE NoError

WebInit ==
    /\ pc = "serving"
    /\ generation_status = InitialStatus
    /\ req_pc = [r \in Requests |-> "check"]
    /\ response = [r \in Requests |-> NoResponse]
    /\ gen_pc = [r \in Requests |-> "not started"]
    /\ gen_error = [r \in Requests |-> NoError]
    /\ gen_timestamp = [r \in Requests |-> None]
    /\ RetryIdle
    /\ TextIdle
    /\ InputIdle
    /\ BuildIdle
    /\ CaptionIdle

WebOnly ==
    UNCHANGED <<pc, text_vars, input_vars, build_vars, caption_vars, retry_vars>>

\* api_generate, lines 209-210
CheckGenerating(r) ==
    /\ req_pc[r] = "check"
    /\ IF generation_status.is_generating
       THEN /\ response' = [response EXCEPT ![r] = Busy]
            /\ req_pc' = [req_pc EXCEPT ![r] = "responded"]
       ELSE /\ req_pc' = [req_pc EXCEPT ![r] = "parse"]
            /\ UNCHANGED response
    /\ UNCHANGED <<generation_status, gen_pc, gen_error, gen_timestamp>>
    /\ WebOnly

\* api_generate, lines 213-216; int() raises on a body such as
\* {"stanzas": "many"} and the server answers 500
ParseParameters(r) ==
    /\ req_pc[r] = "parse"
    /\ \/ /\ req_pc' = [req_pc EXCEPT ![r] = "reset"]
          /\ UNCHANGED response
       \/ /\ response' = [response EXCEPT ![r] = ServerError]
          /\ req_pc' = [req_pc EXCEPT ![r] = "responded"]
    /\ UNCHANGED <<generation_status, gen_pc, gen_error, gen_timestamp>>
    /\ WebOnly

\* api_generate, lines 219-224
ResetStatus(r) ==
    /\ req_pc[r] = "reset"
    /\ generation_status' =
           [is_generating |-> TRUE, progress |-> <<"Initializing...">>,
            error |-> None, last_video |-> None]
    /\ req_pc' = [req_pc EXCEPT ![r] = "start"]
    /\ UNCHANGED <<response, gen_pc, gen_error, gen_timestamp>>
    /\ WebOnly

\* api_generate, lines 227-231
StartThread(r) ==
    /\ req_pc[r] = "start"
    /\ gen_pc' = [gen_pc EXCEPT ![r] = "starting"]
    /\ response' = [response EXCEPT ![r] = Started]
    /\ req_pc' = [req_pc EXCEPT ![r] = "responded"]
    /\ UNCHANGED <<generation_status, gen_error, gen_timestamp>>
    /\ WebOnly

SetProgress(p) ==
    generation_status' = [generation_status EXCEPT !.progress = p]

Goto(r, to) == gen_pc' = [gen_pc EXCEPT ![r] = to]

\* an exception inside the try block of run_generation
Except(r, e) ==
    /\ gen_error' = [gen_error EXCEPT ![r] = e]
    /\ Goto(r, "except_error")

\* run_generation, line 104
StartingGeneration(r) ==
    /\ gen_pc[r] = "starting"
    /\ SetProgress(<<"Starting generation...">>)
    /\ Goto(r, "mkdir")
    /\ UNCHANGED <<req_pc, response, gen_error, gen_timestamp>>
    /\ WebOnly

\* run_generation, lines 107-119
MakeDirectories(r) ==
    /\ gen_pc[r] = "mkdir"
    /\ \E ts \in Timestamps :
          gen_timestamp' = [gen_timestamp EXCEPT ![r] = Some(ts)]
    /\ \/ Goto(r, "step1") /\ UNCHANGED gen_error
       \/ Except(r, Failure("mkdir"))
    /\ UNCHANGED <<generation_status, req_pc, response>>
    /\ WebOnly

\* run_generation, line 122
Step1Progress(r) ==
    /\ gen_pc[r] = "step1"
    /\ SetProgress(<<"Step 1/4: Fetching world news...">>)
    /\ Goto(r, "summary")
    /\ UNCHANGED <<req_pc, response, gen_error, gen_timestamp>>
    /\ WebOnly

\* run_generation, lines 123-124
GetSummary(r) ==
    /\ gen_pc[r] = "summary"
    /\ \/ Goto(r, "step2") /\ UNCHANGED gen_error
       \/ Except(r, Failure("get_world_news_summary"))
       \/ Except(r, Failure("write summary.txt"))
    /\ UNCHANGED <<generation_status, req_pc, response, gen_timestamp>>
    /\ WebOnly

\* run_generation, line 127
Step2Progress(r) ==
    /\ gen_pc[r] = "step2"
    /\ SetProgress(<<"Step 2/4: Writing poem stanzas...">>)
    /\ Goto(r, "stanzas")
    /\ UNCHANGED <<req_pc, response, gen_error, gen_timestamp>>
    /\ WebOnly

\* run_generation, lines 128-170: the call of make_stanzas and, if its
\* arguments bind, the rest of the try block: a collaborator fails, before
\* or after the progress has moved on, or the video is built
MakeStanzasAndVideo(r) ==
    /\ gen_pc[r] = "stanzas"
    /\ LET e == bind(make_stanzas_signature, make_stanzas_call) IN
       IF e # NoError
       THEN /\ Except(r, e)
            /\ UNCHANGED generation_status
       ELSE \/ /\ \E f \in {"make_stanzas", "write stanzas.txt",
                            "generate_short_title"} : Except(r, Failure(f))
               /\ UNCHANGED generation_status
            \/ /\ Except(r, Failure("generate_audio_files"))
               /\ SetProgress(<<"Step 3/4: Generating audio narration...">>)
            \/ /\ \E f \in {"backgrounds", "build_video"} : Except(r, Failure(f))
               /\ SetProgress(<<"Step 4/4: Building video...">>)
            \/ /\ generation_status' =
                      [generation_status EXCEPT
                          !.progress = <<"Complete!">>,
                          !.last_video = gen_timestamp[r]]
               /\ Goto(r, "finally")
               /\ UNCHANGED gen_error
    /\ UNCHANGED <<req_pc, response, gen_timestamp>>
    /\ WebOnly

\* run_generation, line 173
ExceptSetError(r) ==
    /\ gen_pc[r] = "except_error"
    /\ generation_status' =
           [generation_status EXCEPT !.error = Some(gen_error[r].msg)]
    /\ Goto(r, "except_progress")
    /\ UNCHANGED <<req_pc, response, gen_error, gen_timestamp>>
    /\ WebOnly

\* run_generation, line 174
ExceptSetProgress(r) ==
    /\ gen_pc[r] = "except_progress"
    /\ SetProgress(<<"Error: ", gen_error[r].msg>>)
    /\ Goto(r, "finally")
    /\ UNCHANGED <<req_pc, response, gen_error, gen_timestamp>>
    /\ WebOnly

\* run_generation, lines 175-176
Finally(r) ==
    /\ gen_pc[r] = "finally"
    /\ generation_status' = [generation_status EXCEPT !.is_generating = FALSE]
    /\ Goto(r, "finished")
    /\ UNCHANGED <<req_pc, response, gen_error, gen_timestamp>>
    /\ WebOnly

api_generate(r) ==
    \/ CheckGenerating(r)
    \/ ParseParameters(r)
    \/ ResetStatus(r)
    \/ StartThread(r)

run_generation(r) ==
    \/ StartingGeneration(r)
    \/ MakeDirectories(r)
    \/ Step1Progress(r)
    \/ GetSummary(r)
    \/ Step2Progress(r)
    \/ MakeStanzasAndVideo(r)
    \/ ExceptSetError(r)
    \/ ExceptSetProgress(r)
    \/ Finally(r)

WebNext == \E r \in Requests : api_generate(r) \/ run_generation(r)

SpecWeb == WebInit /\ [][WebNext]_vars

\* a started thread keeps running: the scheduler serves every runnable
\* thread, and every collaborator call returns or raises
SpecWebFair ==
    SpecWeb /\ \A r \in Requests : WF_vars(run_generation(r))

(***************************************************************************)
(* Properties of the web app.                                              *)
(***************************************************************************)
Active(r) == gen_pc[r] \notin {"not started", "finished"}
Completes(r) == gen_pc[r] = "finally" /\ gen_pc'[r] = "finished"
IsExternalFailure(e) == e.exc = "Exception"

\* C22: only one generation runs at a time: at no moment are two
\* run_generation threads active, and a request that is checked while one is
\* active gets the 400 "Generation already in progress" response and starts
\* no thread.
C22_Claim ==
    /\ [](Cardinality({r \in Requests : Active(r)}) <= 1)
    /\ [](\A r \in Requests : response[r] = Busy => gen_pc[r] = "not started")
    /\ [][\A r \in Requests :
            (/\ req_pc[r] = "check"
             /\ req_pc'[r] # "check"
             /\ \E g \in Requests : Active(g))
                => response'[r] = Busy]_vars

\* C23: a generation in which no collaborator call and no file operation
\* fails ends with progress "Complete!", error None and last_video equal to
\* its timestamp.
C23_Claim ==
    [][\A r \in Requests :
         (Completes(r) /\ ~IsExternalFailure(gen_error[r]))
            => /\ generation_status'.progress = <<"Complete!">>
               /\ generation_status'.error = None
               /\ generation_status'.last_video = gen_timestamp[r]]_vars

\* every started generation is followed by is_generating = False
EventuallyIdle ==
    \A r \in Requests :
        (gen_pc[r] = "starting") ~> (~generation_status.is_generating)

\* a generation that caught an exception leaves error set and a progress
\* that begins with "Error" when it sets is_generating to False
ErrorReported ==
    [][\A r \in Requests :
         (Completes(r) /\ gen_error[r] # NoError)
            => /\ generation_status'.error # None
               /\ generation_status'.progress[1] = "Error: "]_vars

\* C24: every generation started eventually sets is_generating back to
\* False, on success and on any failure, and when it does so after a
\* failure, error is not None and progress begins with "Error".
C24_Claim == EventuallyIdle /\ ErrorReported

(***************************************************************************)
(* SpecRetry: one run of the retry loop of make_stanzas or of              *)
(* get_world_news_summary, which are the same loop around different calls  *)
(* of the language model.  Times are in half seconds.                      *)
(***************************************************************************)
RetryFunctions == {"make_stanzas", "get_world_news_summary"}

\* the exception the try block of the given attempt raises
APIError(n) == [exc |-> "APIError", msg |-> ToString(n)]
\* what the try block of the given attempt returns
Response(fn, n) == <<fn, "response", n>>

Succeeded(value) == [outcome |-> "returned", value |-> value]
Failed(e) == [outcome |-> "raised", value |-> e]

RetryInit ==
    /\ pc = "for"
    /\ retry_fn \in RetryFunctions
    /\ max_retries \in 0..MaxRetries
    /\ backoff_seconds \in 1..MaxBackoff
    /\ attempt = 0
    /\ calls = <<>>
    /\ sleeps = <<>>
    /\ last_error = None
    /\ returned = None
    /\ WebIdle
    /\ TextIdle
    /\ InputIdle
    /\ BuildIdle
    /\ CaptionIdle

RetryOnly ==
    UNCHANGED <<text_vars, input_vars, caption_vars, web_vars, video_clips,
                final_video, encoded, opened, open_handles, dir_created,
                file_written, result, retry_fn, max_retries, backoff_seconds>>

\* for attempt in range(1, max_retries + 1): the next attempt, or the end of
\* the loop
ForAttempt ==
    /\ pc = "for"
    /\ IF attempt < max_retries
       THEN attempt' = attempt + 1 /\ pc' = "try"
       ELSE pc' = "after" /\ UNCHANGED attempt
    /\ UNCHANGED <<calls, sleeps, last_error, returned, err>>
    /\ RetryOnly

\* the try block: the call of the language model and the handling of its
\* answer return a result, or raise, and then last_error = e
TryCall ==
    /\ pc = "try"
    /\ \/ /\ calls' = Append(calls, Succeeded(Response(retry_fn, attempt)))
          /\ returned' = Some(Response(retry_fn, attempt))
          /\ pc' = "returned"
          /\ UNCHANGED last_error
       \/ /\ calls' = Append(calls, Failed(APIError(attempt)))
          /\ last_error' = Some(APIError(attempt))
          /\ pc' = "except"
          /\ UNCHANGED returned
    /\ UNCHANGED <<attempt, sleeps, err>>
    /\ RetryOnly

\* if attempt < max_retries: time.sleep(backoff_seconds * attempt)
Backoff ==
    /\ pc = "except"
    /\ sleeps' = IF attempt < max_retries
                 THEN Append(sleeps, [after |-> attempt,
                                      seconds |-> backoff_seconds * attempt])
                 ELSE sleeps
    /\ pc' = "for"
    /\ UNCHANGED <<attempt, calls, last_error, returned, err>>
    /\ RetryOnly

\* raise last_error, after the loop; raising None is a TypeError
RaiseLastError ==
    /\ pc = "after"
    /\ Raise(IF last_error = None
             THEN TypeError("exceptions must derive from BaseException")
             ELSE last_error[1])
    /\ UNCHANGED <<attempt, calls, sleeps, last_error, returned>>
    /\ RetryOnly

RetryNext ==
    \/ ForAttempt
    \/ TryCall
    \/ Backoff
    \/ RaiseLastError

SpecRetry == RetryInit /\ [][RetryNext]_vars

(***************************************************************************)
(* Properties of the retry loops.                                          *)
(***************************************************************************)
\* C25: the retry loop makes at most max_retries attempts, for every
\* max_retries >= 0; it stops at the first attempt that succeeds and returns
\* that attempt's result; it sleeps backoff_seconds * attempt after a failed
\* attempt only if another attempt follows; and when all attempts have
\* failed it raises the error of the last attempt.
C25_Claim ==
    /\ Len(calls) <= max_retries
    /\ \A k \in 1..(Len(calls) - 1) : calls[k].outcome = "raised"
    /\ pc = "returned" =>
          /\ calls[Len(calls)].outcome = "returned"
          /\ returned = Some(calls[Len(calls)].value)
    /\ \A i \in 1..Len(sleeps) :
          /\ sleeps[i] = [after |-> i, seconds |-> backoff_seconds * i]
          /\ i < max_retries
          /\ i <= Len(calls)
    /\ pc \in {"returned", "raised"} =>
          Len(sleeps) = Max2(Len(calls) - 1, 0)
    /\ pc = "raised" =>
          /\ Len(calls) = max_retries
          /\ calls # <<>>
          /\ calls[Len(calls)].outcome = "raised"
          /\ err = calls[Len(calls)].value
====
